---- MODULE Spec2Model ----
(***************************************************************************)
(* fast_forward_through_instruction (src/fast_forward.cc): the routine     *)
(* that single-steps a tracee over one instruction and, when that          *)
(* instruction is a REP-prefixed x86 string instruction, runs most of its  *)
(* iterations in one continue bounded by a temporary watchpoint.           *)
(*                                                                         *)
(* The tracee (registers, memory effects, debug status) and the address    *)
(* space's breakpoint and watchpoint tables are the environment of the     *)
(* routine; the routine itself is one action per straight-line block.      *)
(***************************************************************************)
EXTENDS Integers, Sequences, FiniteSets, Bags, TLC

\* ------------------------------------------------------------------ bounds

\* Entry CX values 0..MaxSmallCx are all explored (no batched phase fits).
MaxSmallCx == 4
\* Watchpoints set by other parties before the call: at most this many.
MaxWatch == 1
\* Target states handed in by the caller: at most this many.
MaxStates == 1

\* --------------------------------------------------------- program constants

BYTES_COALESCED == 128

\* Layout of the tracee used by the scenarios (spec S1): the instruction sits
\* at IP0, the source operand at SI0, the destination operand at DI0.
IP0 == \h1000
SI0 == \h8000
DI0 == \h9000

StringOpsNoFlags == {\hA4, \hA5, \hAA, \hAB, \hAC, \hAD}
StringOpsFlags == {\hA6, \hA7, \hAE, \hAF}
StringOps == StringOpsNoFlags \cup StringOpsFlags

Min(a, b) == IF a < b THEN a ELSE b
Max(a, b) == IF a > b THEN a ELSE b

\* ------------------------------------------------------------------ decoder

\* The for loop of decode_x86_string_instruction from index i on.  exit is
\* "false" (return false inside the switch), "done" (an opcode was found, i
\* is its index) or "end" (the loop ran off code_buf_len, i = code_buf_len).
\* code_buf is 1-based here: code_buf[i] of the source is code.code_buf[i+1].
RECURSIVE DecodeLoop(_, _, _)
DecodeLoop(code, i, st) ==
  IF i >= code.code_buf_len
    THEN [st EXCEPT !.exit = "end", !.i = i]
    ELSE LET b == code.code_buf[i + 1] IN
      CASE b = \h66 -> DecodeLoop(code, i + 1, [st EXCEPT !.found_operand_prefix = TRUE])
        [] b = \h48 -> IF code.arch = "x86_64"
                         THEN DecodeLoop(code, i + 1, [st EXCEPT !.found_REXW_prefix = TRUE])
                         ELSE [st EXCEPT !.exit = "false", !.i = i]
        [] b \in {\hF2, \hF3} -> DecodeLoop(code, i + 1, [st EXCEPT !.found_REP_prefix = TRUE])
        [] b \in StringOpsNoFlags -> [st EXCEPT !.exit = "done", !.i = i]
        [] b \in StringOpsFlags ->
             [st EXCEPT !.exit = "done", !.i = i, !.modifies_flags = TRUE]
        [] OTHER -> [st EXCEPT !.exit = "false", !.i = i]

DecodeStart ==
  [exit |-> "end", i |-> 0, found_operand_prefix |-> FALSE,
   found_REP_prefix |-> FALSE, found_REXW_prefix |-> FALSE,
   modifies_flags |-> FALSE]

NotDecoded == [ok |-> FALSE, operand_size |-> 0, length |-> 0, modifies_flags |-> FALSE]

\* instruction_buf before read_instruction has filled it.
NotRead == [arch |-> "", code_buf |-> <<>>, code_buf_len |-> 0]

\* decode_x86_string_instruction.  When the loop ends without an opcode the
\* source reads code_buf[i] with i = code_buf_len, a byte that was never
\* written: junk is that byte (any value).
decode_x86_string_instruction(code, junk) ==
  LET st == DecodeLoop(code, 0, DecodeStart)
      last == IF st.exit = "done" THEN code.code_buf[st.i + 1] ELSE junk
  IN IF st.exit = "false" \/ ~st.found_REP_prefix
       THEN NotDecoded
       ELSE [ok |-> TRUE,
             operand_size |-> IF last % 2 = 1
                                THEN (IF st.found_REXW_prefix THEN 8
                                      ELSE IF st.found_operand_prefix THEN 2 ELSE 4)
                                ELSE 1,
             length |-> st.i + 1,
             modifies_flags |-> st.modifies_flags]

\* read_instruction: the bytes at ip; the scenarios' instructions are whole,
\* so the read returns all of them.
read_instruction(a, bytes) ==
  [arch |-> a, code_buf |-> bytes, code_buf_len |-> Len(bytes)]

\* --------------------------------------------------------- iteration bounder

mem_intersect(a1, s1, a2, s2) == Max(a1, a2) < Min(a1 + s1, a2 + s2)

\* The backward bound without the iteration that still fits.
bound_iterations_for_watchpoint_NoPlusOne(df, reg, dec, watch, iters) ==
  LET size == dec.operand_size
  IN IF Max(reg, watch.addr) < Min(reg + size, watch.addr + watch.num_bytes) THEN 0
     ELSE IF ~df
       THEN (IF watch.addr < reg THEN iters
             ELSE Min(iters, (watch.addr - reg) \div size))
       ELSE (IF watch.addr > reg THEN iters
             ELSE Min(iters, (reg - (watch.addr + watch.num_bytes)) \div size))

\* bound_iterations_for_watchpoint: the new value of *iterations.
bound_iterations_for_watchpoint(df, reg, dec, watch, iters) ==
  LET size == dec.operand_size
      direction == IF df THEN -1 ELSE 1
  IN IF mem_intersect(reg, size, watch.addr, watch.num_bytes) THEN 0
     ELSE IF direction > 0
       THEN (IF watch.addr < reg THEN iters
             ELSE Min(iters, (watch.addr - reg) \div size))
       ELSE (IF watch.addr > reg THEN iters
             ELSE Min(iters, (reg - (watch.addr + watch.num_bytes)) \div size + 1))

\* ------------------------------------------------------------------ tracee
\* The x86 tracee as the routine sees it through Task: what one single-step and
\* one continue do to the registers, which memory one iteration touches, and
\* which stop is reported.  regs is [ip, cx, si, di, df]; insn is the byte
\* sequence of the instruction at IP0 (prefixes, then the opcode).

HwOpcode(insn) == insn[Len(insn)]
HwPrefixes(insn) == {insn[i] : i \in 1..(Len(insn) - 1)}
HwIsString(insn) ==
  HwOpcode(insn) \in StringOps /\ HwPrefixes(insn) \subseteq {\h66, \h48, \hF2, \hF3}
HwRep(insn) == HwPrefixes(insn) \cap {\hF2, \hF3} # {}
HwFlags(insn) == HwOpcode(insn) \in StringOpsFlags
HwSize(insn) ==
  IF HwOpcode(insn) % 2 = 0 THEN 1
  ELSE IF \h48 \in HwPrefixes(insn) THEN 8
  ELSE IF \h66 \in HwPrefixes(insn) THEN 2 ELSE 4

\* Memory operands of one iteration (the opcode table of the design).
ReadsSI(op) == op \in {\hA4, \hA5, \hAC, \hAD, \hA6, \hA7}
ReadsDI(op) == op \in {\hA6, \hA7, \hAE, \hAF}
WritesDI(op) == op \in {\hA4, \hA5, \hAA, \hAB}

Direction(regs) == IF regs.df THEN -1 ELSE 1

\* The accesses of the iteration that starts in regs.
Accesses(insn, regs) ==
  LET op == HwOpcode(insn) IN
    (IF ReadsSI(op) THEN {[addr |-> regs.si, write |-> FALSE]} ELSE {})
    \cup (IF ReadsDI(op) THEN {[addr |-> regs.di, write |-> FALSE]} ELSE {})
    \cup (IF WritesDI(op) THEN {[addr |-> regs.di, write |-> TRUE]} ELSE {})

Overlap(a1, s1, a2, s2) == a1 < a2 + s2 /\ a2 < a1 + s1

\* A data watchpoint of the table wps fires on the iteration starting in regs.
WatchHit(insn, wps, regs) ==
  \E a \in Accesses(insn, regs), w \in wps :
     /\ Overlap(a.addr, HwSize(insn), w.addr, w.num_bytes)
     /\ (w.type = "WATCH_READWRITE" \/ (w.type = "WATCH_WRITE" /\ a.write))

\* Registers after n iterations, IP left alone.
HwIterate(insn, regs, n) ==
  LET op == HwOpcode(insn)
      d == Direction(regs) * n * HwSize(insn)
  IN [regs EXCEPT !.cx = IF HwRep(insn) THEN @ - n ELSE @,
                  !.si = IF ReadsSI(op) THEN @ + d ELSE @,
                  !.di = IF ReadsDI(op) \/ WritesDI(op) THEN @ + d ELSE @]

\* Iterations a REP loop entered in regs (cx > 0) runs before it ends: to
\* CX = 0, or, for CMPS/SCAS, to the iteration whose comparison ends the loop,
\* which leaves CX = zf.  zf = 0 is "no comparison ends it".
LoopLeft(insn, zf, regs) ==
  IF HwFlags(insn) /\ zf < regs.cx THEN regs.cx - zf ELSE regs.cx

\* The tracee after n of those iterations (1 <= n <= LoopLeft): the loop's
\* last iteration moves IP past the instruction.
HwAfter(insn, zf, regs, n) ==
  [HwIterate(insn, regs, n) EXCEPT
     !.ip = IF n = LoopLeft(insn, zf, regs) THEN regs.ip + Len(insn) ELSE regs.ip]

HasBreakpoint(bps, addr) ==
  \E t \in {"TRAP_BKPT_INTERNAL", "TRAP_BKPT_USER"} : BagIn(<<addr, t>>, bps)

\* One single-step of the tracee from regs (regs.ip = IP0 for every program
\* but the breakpoint's): [regs, watch, stores].  watch: a watchpoint fired;
\* stores: iterations whose stores reached memory.
HwSingleStep(a, insn, zf, bps, wps, regs) ==
  IF HasBreakpoint(bps, regs.ip)
    THEN \* the breakpoint instruction (one byte) executes
         [regs |-> [regs EXCEPT !.ip = @ + 1], watch |-> FALSE, stores |-> 0]
  ELSE IF ~(a \in {"x86", "x86_64"} /\ HwIsString(insn))
    THEN \* nop (90), or jmp rel8 (EB rel)
         [regs |-> [regs EXCEPT !.ip = IF insn[1] = \hEB
                                         THEN @ + 2 + (IF insn[2] >= 128 THEN insn[2] - 256 ELSE insn[2])
                                         ELSE @ + Len(insn)],
          watch |-> FALSE, stores |-> 0]
  ELSE IF ~HwRep(insn)
    THEN [regs |-> [HwIterate(insn, regs, 1) EXCEPT !.ip = @ + Len(insn)],
          watch |-> WatchHit(insn, wps, regs),
          stores |-> IF WritesDI(HwOpcode(insn)) THEN 1 ELSE 0]
  ELSE IF regs.cx = 0
    THEN [regs |-> [regs EXCEPT !.ip = @ + Len(insn)], watch |-> FALSE, stores |-> 0]
  ELSE [regs |-> HwAfter(insn, zf, regs, 1),
        watch |-> WatchHit(insn, wps, regs),
        stores |-> IF WritesDI(HwOpcode(insn)) THEN 1 ELSE 0]

\* The stops a continue of a REP string loop entered in regs (cx > 0) can end
\* in.  The first iteration that touches a watchpoint reports it; a loop that
\* stores (MOVS, STOS) may have retired up to BYTES_COALESCED further bytes
\* by then.  A loop that ends untouched runs into the breakpoint after the
\* instruction, which leaves IP one byte past it; without a breakpoint there
\* the tracee is gone (ip = 0).
HwContinue(insn, zf, bps, wps, regs) ==
  LET left == LoopLeft(insn, zf, regs)
      op == HwOpcode(insn)
      hits == {j \in 1..left : WatchHit(insn, wps, HwIterate(insn, regs, j - 1))}
      slack == IF WritesDI(op) THEN BYTES_COALESCED \div HwSize(insn) ELSE 0
      past == HwAfter(insn, zf, regs, left)
  IN IF hits = {}
       THEN {[regs |-> [past EXCEPT !.ip = IF HasBreakpoint(bps, @) THEN @ + 1 ELSE 0],
              watch |-> FALSE,
              stores |-> IF WritesDI(op) THEN left ELSE 0]}
       ELSE LET first == CHOOSE j \in hits : \A k \in hits : j <= k
            IN {[regs |-> HwAfter(insn, zf, regs, j),
                 watch |-> TRUE,
                 stores |-> IF WritesDI(op) THEN j ELSE 0] :
                  j \in first..Min(first + slack, left)}

\* ----------------------------------------------------- address space tables
\* AddressSpace (vm()): breakpoints are counted per (address, type), the
\* watchpoints are a set of (addr, num_bytes, type), and save_watchpoints
\* pushes the set on a stack that restore_watchpoints pops.

add_breakpoint(bps, addr, type) == bps (+) SetToBag({<<addr, type>>})
remove_breakpoint(bps, addr, type) == bps (-) SetToBag({<<addr, type>>})
get_breakpoint_type_at_addr(bps, addr) ==
  IF BagIn(<<addr, "TRAP_BKPT_USER">>, bps) THEN "TRAP_BKPT_USER"
  ELSE IF BagIn(<<addr, "TRAP_BKPT_INTERNAL">>, bps) THEN "TRAP_BKPT_INTERNAL"
  ELSE "TRAP_NONE"
add_watchpoint(wps, addr, num_bytes, type) ==
  wps \cup {[addr |-> addr, num_bytes |-> num_bytes, type |-> type]}

\* ------------------------------------------------------------------- state

VARIABLES
  arch,               \* t->arch()
  insn,               \* the bytes of the instruction at IP0
  zf,                 \* the CX at which a CMPS/SCAS comparison ends the loop (0: none)
  regs,               \* the tracee's registers
  mem,                \* iterations whose stores have reached the tracee's memory
  breakpoints,        \* vm(): bag of <<addr, type>>
  watchpoints,        \* vm(): set of [addr, num_bytes, type]
  saved_watchpoints,  \* vm(): the stack save_watchpoints pushes on
  debug_status,       \* the tracee's pending debug status bits
  pc,                 \* where the routine is
  ip,                 \* locals of fast_forward_through_instruction
  states,
  states_copy,
  instruction_buf,    \* InstructionBuf instruction_buf (line 163)
  decoded,
  cur_cx,
  iterations,
  r,
  cont_status,        \* debug_status of the batched phase (line 273)
  h                   \* history of the call, for the properties only

vars == <<arch, insn, zf, regs, mem, breakpoints, watchpoints, saved_watchpoints,
          debug_status, pc, ip, states, states_copy, instruction_buf, decoded,
          cur_cx, iterations, r, cont_status, h>>

tracee == <<arch, insn, zf>>

\* --------------------------------------------------------------- scenarios

BatchExtra == 10

X64Programs ==
  { <<\hF3, \hA4>>,          \* rep movsb
    <<\hF3, \h48, \hAB>>,    \* rep stosq
    <<\hF3, \h48, \hAD>>,    \* rep lodsq
    <<\hF2, \hAE>>,          \* repne scasb
    <<\hF3, \h48, \hA7>>,    \* repe cmpsq
    <<\hA4>>,                \* movsb
    <<\h90>>,                \* nop
    <<\hEB, \hFE>>,          \* jmp to itself
    <<\hEB, \h10>> }         \* jmp forward
X86Programs == { <<\hF3, \hA5>>, <<\hF3, \h66, \hAF>> }  \* rep movsd, repe scasw
OtherPrograms == { <<\h90>>, <<\hEB, \hFE>> }

ArchPrograms ==
  ({"x86_64"} \X X64Programs) \cup ({"x86"} \X X86Programs)
    \cup ({"aarch64"} \X OtherPrograms)

\* Programs of the batched family: 8-byte operands, so that a batched phase
\* fits a small CX.
BatchPrograms ==
  { <<\hF3, \h48, \hAB>>, <<\hF3, \h48, \hAD>>, <<\hF3, \h48, \hA7>>,
    <<\hF3, \h48, \hA5>> }
\* The entry CX of the batched family: after the trial step N = cx - 2, the
\* temporary watchpoint is touched by the 8th iteration, and a stop delayed by
\* BYTES_COALESCED bytes lands on iteration N exactly.
BatchCx(bytes) == BYTES_COALESCED \div HwSize(bytes) + BatchExtra

EntryRegs(cx, df) == [ip |-> IP0, cx |-> cx, si |-> SI0, di |-> DI0, df |-> df]

ZfChoices(bytes, cx) ==
  IF ~(HwIsString(bytes) /\ HwRep(bytes) /\ HwFlags(bytes)) THEN {0}
  ELSE {z \in 0..(cx - 1) :
          z <= MaxSmallCx \/ z >= cx - 2 \/ z \in {cx - 6, cx - 9, cx - 16}}

\* Target states: on the loop of this call (equal to the registers the tracee
\* has at that CX), after the loop, or of another run of the instruction.
StateCands(bytes, e) ==
  LET len == Len(bytes)
      on(c) == [HwIterate(bytes, e, e.cx - c) EXCEPT !.cx = c]
  IN (IF e.cx >= 1 THEN {on(e.cx - 1)} ELSE {})
     \cup (IF e.cx >= 3 THEN {on(2)} ELSE {})
     \cup {[on(1) EXCEPT !.ip = IP0 + len],
           [e EXCEPT !.cx = 0, !.si = 0],
           [e EXCEPT !.si = 0]}

SeqsUpTo(S, n) == UNION {[1..k -> S] : k \in 0..n}

WatchCands(df) ==
  LET d == IF df THEN -1 ELSE 1 IN
  { [addr |-> SI0, num_bytes |-> 1, type |-> "WATCH_READWRITE"],
    [addr |-> DI0 + d * 16, num_bytes |-> 4, type |-> "WATCH_WRITE"],
    [addr |-> SI0 + d * 2, num_bytes |-> 1, type |-> "WATCH_WRITE"],
    [addr |-> DI0 + d * 160, num_bytes |-> 1, type |-> "WATCH_READWRITE"],
    [addr |-> SI0 + d * 160, num_bytes |-> 1, type |-> "WATCH_READWRITE"],
    [addr |-> DI0 - d * 8, num_bytes |-> 8, type |-> "WATCH_READWRITE"] }

SubsetsUpTo(S, n) == {T \in SUBSET S : Cardinality(T) <= n}

BpCands(bytes) ==
  { EmptyBag,
    SetToBag({<<IP0, "TRAP_BKPT_USER">>}),
    SetToBag({<<IP0 + Len(bytes), "TRAP_BKPT_USER">>}) }
  \cup (IF bytes = <<\hEB, \h10>>      \* on the target of the jump
          THEN {SetToBag({<<IP0 + \h12, "TRAP_BKPT_USER">>})} ELSE {})

NoHistory ==
  [entry |-> <<>>, steps |-> 0, conts |-> 0, reg_writes |-> 0, vm_ops |-> 0,
   ret |-> "", abort |-> "", rounds |-> 0, retries |-> 0,
   trial |-> <<>>, first |-> <<>>, bp_exit |-> FALSE, exit_cx |-> 0, overrun |-> FALSE,
   consumed |-> FALSE, off_resume |-> FALSE]

Start(a, bytes, e, z, st, wps, bps) ==
  /\ arch = a /\ insn = bytes /\ zf = z
  /\ regs = e /\ mem = 0
  /\ breakpoints = bps /\ watchpoints = wps /\ saved_watchpoints = <<>>
  /\ debug_status = {}
  /\ pc = "entry"
  /\ ip = 0 /\ states = st /\ states_copy = <<>>
  /\ instruction_buf = NotRead
  /\ decoded = NotDecoded /\ cur_cx = 0 /\ iterations = 0
  /\ r = e /\ cont_status = {}
  /\ h = [NoHistory EXCEPT
            !.entry = [regs |-> e, breakpoints |-> bps, watchpoints |-> wps,
                       states |-> st]]

\* Every program with a small CX, where only the tail phase runs.
InitSmall ==
  \E ap \in ArchPrograms : \E cx \in 0..MaxSmallCx : \E df \in BOOLEAN :
  \E z \in ZfChoices(ap[2], cx) :
  \E st \in SeqsUpTo(StateCands(ap[2], EntryRegs(cx, df)), MaxStates) :
  \E wps \in SubsetsUpTo(WatchCands(df), MaxWatch) :
  \E bps \in BpCands(ap[2]) :
    Start(ap[1], ap[2], EntryRegs(cx, df), z, st, wps, bps)

\* The 8-byte string instructions with a CX that needs the batched phase.
InitBatch ==
  \E bytes \in BatchPrograms : \E df \in BOOLEAN :
  \E z \in ZfChoices(bytes, BatchCx(bytes)) :
  \E st \in SeqsUpTo(StateCands(bytes, EntryRegs(BatchCx(bytes), df)), MaxStates) :
  \E wps \in SubsetsUpTo(WatchCands(df), MaxWatch) :
  \E bps \in {EmptyBag, SetToBag({<<IP0 + Len(bytes), "TRAP_BKPT_USER">>}),
               SetToBag({<<IP0 + Len(bytes), "TRAP_BKPT_INTERNAL">>})} :
    Start("x86_64", bytes, EntryRegs(BatchCx(bytes), df), z, st, wps, bps)

\* The literal scenarios of the design: S1 (rep movsb, CX = 1000), S4 (rep
\* cmpsb, CX = 200 after the trial step, a target state of the same IP with
\* cx = 50), S3 with a CX that reaches the batched phase (repne scasb
\* leaving the loop through ZF), and S2 (rep stosq, CX = 100, DI = 0x10000).
\* The last three bring the opcodes AA, AC and AF to the batched phase.
InitLiteral ==
  \/ Start("x86_64", <<\hF3, \h48, \hAB>>, [EntryRegs(100, FALSE) EXCEPT !.di = \h10000],
           0, <<>>, {}, EmptyBag)
  \/ \E df \in BOOLEAN :
       \/ Start("x86_64", <<\hF3, \hAA>>, EntryRegs(150, df), 0, <<>>, {}, EmptyBag)
       \/ Start("x86_64", <<\hF3, \hAC>>, EntryRegs(150, df), 0, <<>>, {}, EmptyBag)
       \/ \E z \in {0, 40} :
            Start("x86", <<\hF3, \h66, \hAF>>, EntryRegs(80, df), z, <<>>, {}, EmptyBag)
  \/ Start("x86_64", <<\hF3, \hA4>>, EntryRegs(1000, FALSE), 0, <<>>, {}, EmptyBag)
  \/ \E z \in {0, 120} :
       Start("x86_64", <<\hF3, \hA6>>, EntryRegs(201, FALSE), z,
             <<[EntryRegs(50, FALSE) EXCEPT !.si = SI0 + 151, !.di = DI0 + 151]>>,
             {}, EmptyBag)
  \/ \E df \in BOOLEAN : \E z \in {0, 150, 60, 30} :
       Start("x86_64", <<\hF2, \hAE>>, EntryRegs(200, df), z, <<>>, {}, EmptyBag)

Init == InitSmall \/ InitBatch \/ InitLiteral

\* ----------------------------------------------------------------- routine

Return(why) == /\ pc' = "done" /\ h' = [h EXCEPT !.ret = why]
Abort(why) == /\ pc' = "abort" /\ h' = [h EXCEPT !.abort = why]

matches(state, rs) == state = rs

\* Lines 138-141: ip = t->ip(); resume_execution(RESUME_SINGLESTEP); the stop
\* is a SIGTRAP.
TrialStep ==
  /\ pc = "entry"
  /\ LET s == HwSingleStep(arch, insn, zf, breakpoints, watchpoints, regs) IN
       /\ ip' = regs.ip
       /\ regs' = s.regs
       /\ mem' = mem + s.stores
       /\ debug_status' = debug_status \cup {"DS_SINGLESTEP"}
                            \cup (IF s.watch THEN {"DS_WATCHPOINT_ANY"} ELSE {})
       /\ h' = [h EXCEPT !.steps = @ + 1,
                         !.trial = [regs |-> s.regs, watch |-> s.watch]]
  /\ pc' = "trial"
  /\ UNCHANGED <<tracee, breakpoints, watchpoints, saved_watchpoints, states,
                 states_copy, instruction_buf, decoded, cur_cx, iterations, r, cont_status>>

\* The check of line 143 left out.
IpMoved_Unchecked == FALSE

\* Line 143: the trial step moved IP.
IpMoved == regs.ip # ip

\* Lines 143-167: the early returns after the trial step, and the decoding.
TrialChecks ==
  /\ pc = "trial"
  /\ \E junk \in {\h00, \hFF} :
       LET buf == read_instruction(arch, insn)
           dec == decode_x86_string_instruction(buf, junk)
       IN
       IF IpMoved THEN Return("ip moved") /\ UNCHANGED <<instruction_buf, decoded>>
       ELSE IF get_breakpoint_type_at_addr(breakpoints, ip) # "TRAP_NONE"
         THEN Return("breakpoint") /\ UNCHANGED <<instruction_buf, decoded>>
       ELSE IF "DS_WATCHPOINT_ANY" \in debug_status
         THEN Return("watchpoint") /\ UNCHANGED <<instruction_buf, decoded>>
       ELSE IF \E i \in 1..Len(states) : matches(states[i], regs)
         THEN Return("state") /\ UNCHANGED <<instruction_buf, decoded>>
       ELSE IF arch # "x86" /\ arch # "x86_64"
         THEN Return("arch") /\ UNCHANGED <<instruction_buf, decoded>>
       ELSE IF ~dec.ok
         THEN Return("decode") /\ instruction_buf' = buf /\ decoded' = decoded
       ELSE /\ instruction_buf' = buf
            /\ decoded' = dec
            /\ pc' = "round"
            /\ h' = h
  /\ UNCHANGED <<tracee, regs, mem, breakpoints, watchpoints, saved_watchpoints,
                 debug_status, ip, states, states_copy, cur_cx, iterations, r,
                 cont_status>>

\* Lines 200-223: the bound by the target states from index i on.
RECURSIVE BoundStates(_, _, _, _, _, _)
BoundStates(sts, i, the_ip, dec, cx, iters) ==
  IF i > Len(sts) THEN iters
  ELSE LET state == sts[i]
           dest_cx == state.cx
           next ==
             IF state.ip = the_ip
               THEN (IF dest_cx = 0 THEN iters
                     ELSE IF dest_cx >= cx THEN iters
                     ELSE Min(iters, cx - dest_cx - 1))
             ELSE IF state.ip = the_ip + dec.length
               THEN (IF dest_cx >= cx THEN iters
                     ELSE Min(iters, cx - dest_cx - 1))
             ELSE iters
       IN BoundStates(sts, i + 1, the_ip, dec, cx, next)

\* Lines 236-241: the bound by every watchpoint, against SI and against DI.
RECURSIVE BoundWatchpoints(_, _, _, _)
BoundWatchpoints(wps, rs, dec, iters) ==
  IF wps = {} THEN iters
  ELSE LET watch == CHOOSE w \in wps : TRUE
           by_si == bound_iterations_for_watchpoint(rs.df, rs.si, dec, watch, iters)
           by_di == bound_iterations_for_watchpoint(rs.df, rs.di, dec, watch, by_si)
       IN BoundWatchpoints(wps \ {watch}, rs, dec, by_di)

\* The bound with the loop over the target states left out.
BoundIterations_NoStates(sts, the_ip, dec, wps, rs) ==
  BoundWatchpoints(wps, rs, dec, rs.cx - 1)

\* Lines 188-245: the iterations this round may run.
BoundIterations(sts, the_ip, dec, wps, rs) ==
  BoundWatchpoints(wps, rs, dec, BoundStates(sts, 1, the_ip, dec, rs.cx, rs.cx - 1))

\* Lines 188-250: one round's bound; returns when nothing can be run.
Bound ==
  /\ pc = "round"
  /\ cur_cx' = regs.cx
  /\ LET n == BoundIterations(states, ip, decoded, watchpoints, regs)
         hh == [h EXCEPT !.rounds = @ + 1,
                         !.first = IF h.rounds = 0
                                     THEN [cur_cx |-> regs.cx, iterations |-> n]
                                     ELSE @]
     IN IF regs.cx = 0
          THEN /\ pc' = "done" /\ h' = [hh EXCEPT !.ret = "cx zero"]
               /\ UNCHANGED <<iterations, r>>
        ELSE IF n = 0
          THEN /\ pc' = "done" /\ h' = [hh EXCEPT !.ret = "no iterations"]
               /\ iterations' = n /\ r' = r
        ELSE /\ pc' = "exec" /\ h' = hh
             /\ iterations' = n
             /\ r' = regs
  /\ UNCHANGED <<tracee, regs, mem, breakpoints, watchpoints, saved_watchpoints,
                 debug_status, ip, states, states_copy, instruction_buf, decoded, cont_status>>

\* The offset of the last iteration's successor: iterations, not iterations - 1.
watch_offset_FullCount == decoded.operand_size * iterations

\* Line 259.
watch_offset == decoded.operand_size * (iterations - 1)

\* The watchpoints of the other parties left in the table.
RemovedWatchpoints_Kept == watchpoints

\* Line 263: the watchpoint table after remove_all_watchpoints().
RemovedWatchpoints == {}

\* Lines 260-269: set up the batched phase.
BatchSetup ==
  /\ pc = "exec"
  /\ watch_offset > BYTES_COALESCED
  /\ saved_watchpoints' = Append(saved_watchpoints, watchpoints)
  /\ watchpoints' =
       add_watchpoint(RemovedWatchpoints, regs.di + Direction(regs) * (watch_offset - BYTES_COALESCED),
                      1, "WATCH_READWRITE")
  /\ breakpoints' = add_breakpoint(breakpoints, ip + decoded.length, "TRAP_BKPT_INTERNAL")
  /\ h' = [h EXCEPT !.vm_ops = @ + 4]
  /\ pc' = "cont"
  /\ UNCHANGED <<tracee, regs, mem, debug_status, ip, states, states_copy, instruction_buf, decoded,
                 cur_cx, iterations, r, cont_status>>

\* Lines 262-269 when the address space refuses the temporary watchpoint
\* (ASSERT of line 267) or the internal breakpoint (ASSERT of line 269): the
\* routine stops there, with the tables as the calls before the refusal left
\* them.
BatchSetupRefused ==
  /\ pc = "exec"
  /\ watch_offset > BYTES_COALESCED
  /\ saved_watchpoints' = Append(saved_watchpoints, watchpoints)
  /\ \/ /\ watchpoints' = RemovedWatchpoints
        /\ Abort("line 267")
     \/ /\ watchpoints' =
             add_watchpoint(RemovedWatchpoints, regs.di + Direction(regs) * (watch_offset - BYTES_COALESCED),
                            1, "WATCH_READWRITE")
        /\ Abort("line 269")
  /\ UNCHANGED <<tracee, regs, mem, breakpoints, debug_status, ip, states, states_copy,
                 instruction_buf, decoded, cur_cx, iterations, r, cont_status>>

\* Line 260, the else: no batched phase.
SkipBatch ==
  /\ pc = "exec"
  /\ ~(watch_offset > BYTES_COALESCED)
  /\ pc' = "tail"
  /\ UNCHANGED <<tracee, regs, mem, breakpoints, watchpoints, saved_watchpoints,
                 debug_status, ip, states, states_copy, instruction_buf, decoded, cur_cx,
                 iterations, r, cont_status, h>>

\* Lines 271-273: resume_execution(RESUME_CONT), the stop is a SIGTRAP, and
\* consume_debug_status().
BatchCont ==
  /\ pc = "cont"
  /\ \E s \in HwContinue(insn, zf, breakpoints, watchpoints, regs) :
       /\ regs' = s.regs
       /\ mem' = mem + s.stores
       /\ cont_status' = debug_status \cup (IF s.watch THEN {"DS_WATCHPOINT_ANY"} ELSE {})
       /\ h' = [h EXCEPT
                  !.conts = @ + 1,
                  !.consumed = TRUE,
                  !.off_resume = @ \/ regs.ip # h.entry.regs.ip,
                  !.bp_exit = @ \/ ~s.watch,
                  !.overrun = @ \/ \E j \in 1..(regs.cx - s.regs.cx) :
                                WatchHit(insn, saved_watchpoints[Len(saved_watchpoints)],
                                         HwIterate(insn, regs, j - 1))]
  /\ debug_status' = {}
  /\ pc' = "stopped"
  /\ UNCHANGED <<tracee, breakpoints, watchpoints, saved_watchpoints, ip, states,
                 states_copy, instruction_buf, decoded, cur_cx, iterations, r>>

\* Lines 271-272 when the continue ends in a stop that is not a SIGTRAP (the
\* tracee took another signal before the loop went on): ASSERT of line 272.
BatchContNoTrap ==
  /\ pc = "cont"
  /\ Abort("line 272")
  /\ UNCHANGED <<tracee, regs, mem, breakpoints, watchpoints, saved_watchpoints,
                 debug_status, ip, states, states_copy, instruction_buf, decoded,
                 cur_cx, iterations, r, cont_status>>

\* IP left where the breakpoint instruction put it.
RewoundRegs_NotRewound == regs

\* IP set back to the start of the string instruction instead.
RewoundRegs_ToInstruction == [regs EXCEPT !.ip = ip]

\* Lines 279-281: the registers with IP set back onto the breakpoint.
RewoundRegs == [regs EXCEPT !.ip = ip + decoded.length]

\* A restore that is left out: the table stays as the batched phase had it.
RestoredWatchpoints_Missing == watchpoints

\* Line 285: restore_watchpoints() brings back the set saved last.
RestoredWatchpoints == saved_watchpoints[Len(saved_watchpoints)]

\* One iteration too many taken off the count.
IterationsToGo_OneLess == iterations - (cur_cx - regs.cx) - 1

\* Line 287: the iterations left for the tail (unsigned: the count wraps, a
\* negative value stands for the wrapped one).
IterationsToGo == iterations - (cur_cx - regs.cx)

\* Line 274, the watchpoint fired: nothing to undo.
BatchWatchpointFired ==
  /\ pc = "stopped"
  /\ "DS_WATCHPOINT_ANY" \in cont_status
  /\ pc' = "cleanup"
  /\ UNCHANGED <<tracee, regs, mem, breakpoints, watchpoints, saved_watchpoints,
                 debug_status, ip, states, states_copy, instruction_buf, decoded, cur_cx,
                 iterations, r, cont_status, h>>

\* Lines 274-282: the breakpoint after the instruction was hit; IP is set back
\* onto it.
BatchBreakpointHit ==
  /\ pc = "stopped"
  /\ ~("DS_WATCHPOINT_ANY" \in cont_status)
  /\ IF regs.ip = ip + decoded.length + 1 /\ decoded.modifies_flags
       THEN /\ regs' = RewoundRegs
            /\ pc' = "cleanup"
            /\ h' = [h EXCEPT !.reg_writes = @ + 1]
       ELSE /\ Abort("line 277")
            /\ regs' = regs
  /\ UNCHANGED <<tracee, mem, breakpoints, watchpoints, saved_watchpoints,
                 debug_status, ip, states, states_copy, instruction_buf, decoded, cur_cx,
                 iterations, r, cont_status>>

\* Lines 284-287: remove the breakpoint, restore the watchpoints, and take
\* the iterations the continue ran off the count.
BatchCleanup ==
  /\ pc = "cleanup"
  /\ breakpoints' = remove_breakpoint(breakpoints, ip + decoded.length, "TRAP_BKPT_INTERNAL")
  /\ watchpoints' = RestoredWatchpoints
  /\ saved_watchpoints' = SubSeq(saved_watchpoints, 1, Len(saved_watchpoints) - 1)
  /\ iterations' = IterationsToGo
  /\ h' = [h EXCEPT !.vm_ops = @ + 2]
  /\ pc' = "tail"
  /\ UNCHANGED <<tracee, regs, mem, debug_status, ip, states, states_copy, instruction_buf, decoded,
                 cur_cx, r, cont_status>>

\* The status read without consuming it (debug_status() as on line 150).
StatusLeftByTail_NotConsumed(status) == status

\* Line 297: consume_debug_status() returns the pending status and leaves
\* none pending.
StatusLeftByTail(status) == {}

\* The tail loop with its test of the IP left out.
AtInstruction_Unchecked == TRUE

\* Line 294: t->ip() == ip, the tracee is still at the string instruction.
AtInstruction == regs.ip = ip

\* Lines 294-303: one single-step of the remaining iterations.  iterations is
\* unsigned, so "> 0" is "not 0" (a negative value here is a wrapped count).
TailStep ==
  /\ pc = "tail"
  /\ iterations # 0 /\ AtInstruction
  /\ LET s == HwSingleStep(arch, insn, zf, breakpoints, watchpoints, regs)
         status == debug_status \cup {"DS_SINGLESTEP"}
                     \cup (IF s.watch THEN {"DS_WATCHPOINT_ANY"} ELSE {})
         hh == [h EXCEPT !.steps = @ + 1, !.consumed = TRUE,
                         !.off_resume = @ \/ regs.ip # h.entry.regs.ip]
     IN /\ regs' = s.regs
        /\ mem' = mem + s.stores
        /\ debug_status' = StatusLeftByTail(status)
        /\ IF "DS_WATCHPOINT_ANY" \in status
             THEN /\ pc' = "abort" /\ h' = [hh EXCEPT !.abort = "line 301"]
                  /\ iterations' = iterations
             ELSE /\ pc' = "tail" /\ h' = hh
                  /\ iterations' = iterations - 1
  /\ UNCHANGED <<tracee, breakpoints, watchpoints, saved_watchpoints, ip, states,
                 states_copy, instruction_buf, decoded, cur_cx, r, cont_status>>

\* Lines 140-141 and 295-296 when the single-step ends in a stop that is not a
\* SIGTRAP: the ASSERT of line 141 or of line 296.
StepNoTrap ==
  /\ \/ pc = "entry" /\ Abort("line 141")
     \/ pc = "tail" /\ iterations # 0 /\ AtInstruction /\ Abort("line 296")
  /\ UNCHANGED <<tracee, regs, mem, breakpoints, watchpoints, saved_watchpoints,
                 debug_status, ip, states, states_copy, instruction_buf, decoded,
                 cur_cx, iterations, r, cont_status>>

\* Lines 305, 321-324: still at the instruction, done.
RoundDone ==
  /\ pc = "tail"
  /\ ~(iterations # 0 /\ AtInstruction)
  /\ regs.ip = ip
  /\ Return("done")
  /\ UNCHANGED <<tracee, regs, mem, breakpoints, watchpoints, saved_watchpoints,
                 debug_status, ip, states, states_copy, instruction_buf, decoded, cur_cx,
                 iterations, r, cont_status>>

\* The loop-exit state not added.
AvoidStates_NoExitState == states

\* Lines 313-319: the caller's states and the loop-exit state after them.
AvoidStates == Append(states, regs)

\* The unwind left out: the registers stay those of the loop exit.
UnwoundRegs_NotRestored == regs

\* Line 320: set_regs(r), the registers of the start of the round.
UnwoundRegs == r

\* Lines 305-320: the loop was left through ZF; unwind to r and go round again
\* with the exit state added to the states to avoid.
ZfRetry ==
  /\ pc = "tail"
  /\ ~(iterations # 0 /\ AtInstruction)
  /\ regs.ip # ip
  /\ IF ~(regs.ip = ip + decoded.length /\ decoded.modifies_flags)
       THEN Abort("line 307") /\ UNCHANGED <<regs, states, states_copy>>
     ELSE IF states_copy # <<>>
       THEN Abort("line 312") /\ UNCHANGED <<regs, states, states_copy>>
     ELSE /\ states_copy' = AvoidStates
          /\ states' = AvoidStates
          /\ regs' = UnwoundRegs
          /\ pc' = "round"
          /\ h' = [h EXCEPT !.retries = @ + 1, !.reg_writes = @ + 1,
                            !.exit_cx = regs.cx]
  /\ UNCHANGED <<tracee, mem, breakpoints, watchpoints, saved_watchpoints,
                 debug_status, ip, instruction_buf, decoded, cur_cx, iterations, r, cont_status>>

Next ==
  \/ TrialStep
  \/ TrialChecks
  \/ Bound
  \/ BatchSetup
  \/ BatchSetupRefused
  \/ SkipBatch
  \/ BatchCont
  \/ BatchContNoTrap
  \/ BatchWatchpointFired
  \/ BatchBreakpointHit
  \/ BatchCleanup
  \/ TailStep
  \/ StepNoTrap
  \/ RoundDone
  \/ ZfRetry

Spec == Init /\ [][Next]_vars

\* ------------------------------------------- the iteration bounder on its own
\* bound_iterations_for_watchpoint called once: reg is regs.di, the watchpoint
\* is the one of the table, *iterations is iterations.

\* Watchpoints start up to MaxDist bytes below or above the register.
MaxDist == 24

InitBounder ==
  \E df \in BOOLEAN : \E size \in {1, 2, 4, 8} : \E nb \in {1, 2, 4, 8} :
  \E a \in (DI0 - MaxDist)..(DI0 + MaxDist) : \E n \in {0, 2, 4 * MaxDist} :
    /\ arch = "x86_64" /\ insn = <<>> /\ zf = 0
    /\ regs = EntryRegs(n + 1, df) /\ mem = 0
    /\ breakpoints = EmptyBag /\ saved_watchpoints = <<>>
    /\ watchpoints = {[addr |-> a, num_bytes |-> nb, type |-> "WATCH_READWRITE"]}
    /\ debug_status = {} /\ pc = "bounder"
    /\ ip = IP0 /\ states = <<>> /\ states_copy = <<>>
    /\ instruction_buf = NotRead
    /\ decoded = [ok |-> TRUE, operand_size |-> size, length |-> 2,
                  modifies_flags |-> FALSE]
    /\ cur_cx = n + 1 /\ iterations = n
    /\ r = regs /\ cont_status = {}
    /\ h = [NoHistory EXCEPT !.first = [cur_cx |-> n + 1, iterations |-> n]]

\* Lines 239-240: one call, against DI.
BoundCall ==
  /\ pc = "bounder"
  /\ \E watch \in watchpoints :
       iterations' = bound_iterations_for_watchpoint(regs.df, regs.di, decoded, watch,
                                                     iterations)
  /\ pc' = "bounded"
  /\ UNCHANGED <<tracee, regs, mem, breakpoints, watchpoints, saved_watchpoints,
                 debug_status, ip, states, states_copy, instruction_buf, decoded,
                 cur_cx, r, cont_status, h>>

SpecBounder == InitBounder /\ [][BoundCall]_vars

\* ---------------------------------------------------- the decoder on its own
\* decode_x86_string_instruction called once on what read_instruction
\* returned: any bytes of the decoder's alphabet, a short read, a failed one.

\* Buffers of up to MaxLen bytes are all explored.
MaxLen == 3

\* uint8_t code_buf[32] (line 15).
CODE_BUF_SIZE == 32

\* The bytes the decoder tells apart, two it does not know, and REX.B.
DecoderBytes == {\h66, \h48, \hF2, \hF3} \cup StringOps \cup {\h90, \hA3, \h41}

\* A full buffer: n prefixes, then the bytes of tail.
Prefixed(n, tail) == [i \in 1..n |-> IF i % 2 = 1 THEN \hF3 ELSE \h66] \o tail

InitDecoder ==
  \E a \in {"x86", "x86_64"} :
  \E buf \in
       {read_instruction(a, bytes) : bytes \in SeqsUpTo(DecoderBytes, MaxLen)}
       \cup {[read_instruction(a, <<>>) EXCEPT !.code_buf_len = -1]}  \* the read failed
       \cup {read_instruction(a, Prefixed(CODE_BUF_SIZE, <<>>)),
              read_instruction(a, Prefixed(CODE_BUF_SIZE - 1, <<\hA5>>)),
              read_instruction(a, Prefixed(CODE_BUF_SIZE - 2, <<\h48, \hAF>>))} :
    /\ arch = a /\ insn = buf.code_buf /\ zf = 0
    /\ regs = EntryRegs(1, FALSE) /\ mem = 0
    /\ breakpoints = EmptyBag /\ watchpoints = {} /\ saved_watchpoints = <<>>
    /\ debug_status = {} /\ pc = "decoder"
    /\ ip = IP0 /\ states = <<>> /\ states_copy = <<>>
    /\ instruction_buf = buf
    /\ decoded = NotDecoded /\ cur_cx = 0 /\ iterations = 0
    /\ r = regs /\ cont_status = {}
    /\ h = NoHistory

\* Line 165: the call; junk is the byte behind the bytes read.
DecodeCall ==
  /\ pc = "decoder"
  /\ \E junk \in {\h00, \hFF, \hA7} :
       decoded' = decode_x86_string_instruction(instruction_buf, junk)
  /\ pc' = "decoded"
  /\ UNCHANGED <<tracee, regs, mem, breakpoints, watchpoints, saved_watchpoints,
                 debug_status, ip, states, states_copy, instruction_buf, cur_cx,
                 iterations, r, cont_status, h>>

SpecDecoder == InitDecoder /\ [][DecodeCall]_vars

\* -------------------------------------------------------------- properties

Returned == pc = "done"

\* The instruction at the entry IP repeats under plain single-stepping: a
\* REP string instruction with CX > 0 and no breakpoint on it.
Repeats ==
  /\ arch \in {"x86", "x86_64"} /\ HwIsString(insn) /\ HwRep(insn)
  /\ ~HasBreakpoint(h.entry.breakpoints, h.entry.regs.ip)
  /\ h.entry.regs.cx > 0

\* The tracee after k ordinary single-steps from the entry state, under the
\* entry tables (k = 1, or up to the end of the loop when it repeats).
PlainSteps(k) ==
  IF k = 1
    THEN LET s == HwSingleStep(arch, insn, zf, h.entry.breakpoints,
                               h.entry.watchpoints, h.entry.regs)
         IN [regs |-> s.regs, mem |-> s.stores]
    ELSE [regs |-> HwAfter(insn, zf, h.entry.regs, k),
          mem |-> IF WritesDI(HwOpcode(insn)) THEN k ELSE 0]

\* The tracee's registers and memory are those of some k >= 1 single-steps.
OnPlainPath ==
  \E k \in {1} \cup (IF Repeats
                       THEN {h.entry.regs.cx - regs.cx}
                              \cap 2..LoopLeft(insn, zf, h.entry.regs)
                       ELSE {}) :
     [regs |-> regs, mem |-> mem] = PlainSteps(k)

\* C1: on every return the breakpoints and the watchpoints (address, size,
\* kind) of the task's VM are those of the entry: the temporary watchpoint
\* and the internal breakpoint are gone, the removed watchpoints are back and
\* nothing is left on the save stack.
C1_TablesAsAtEntry ==
  Returned => /\ breakpoints = h.entry.breakpoints
              /\ watchpoints = h.entry.watchpoints
              /\ saved_watchpoints = <<>>

\* A return after a batched phase that had watchpoints to remove and a
\* breakpoint of another party at IP + length.
C1_Witness ==
  /\ Returned /\ h.conts > 0
  /\ h.entry.watchpoints # {} /\ h.entry.breakpoints # EmptyBag
  /\ breakpoints = h.entry.breakpoints

\* C2: the call is equivalent to plain single-stepping.  Outside the stop of
\* the batched continue (where the breakpoint instruction may have run and IP
\* is not yet set back) the tracee's registers and memory are those reached
\* by some k >= 1 ordinary single-steps from the entry state, in particular
\* after each register write of the routine and on return; and the unwind to
\* the snapshot r happens only for an opcode that modifies flags.
C2_PlainSingleStepping ==
  /\ pc \notin {"entry", "stopped", "abort"} => OnPlainPath
  /\ h.retries > 0 => decoded.modifies_flags

\* A return after both register writes: the IP rewind and the unwind.
C2_Witness == Returned /\ h.bp_exit /\ h.retries = 1 /\ h.reg_writes = 2

\* What the decoder makes of the instruction at the entry IP.
StaticDecoded == decode_x86_string_instruction(read_instruction(arch, insn), 0)

EntryStates == {h.entry.states[i] : i \in 1..Len(h.entry.states)}

\* A target state whose IP is the string instruction's, or IP + length.
MatchingIp(s) ==
  \/ s.ip = h.entry.regs.ip
  \/ StaticDecoded.ok /\ s.ip = h.entry.regs.ip + StaticDecoded.length

\* The stop of the batched continue on which the assertion of line 277 fails.
Line277Fails ==
  /\ pc = "stopped" /\ "DS_WATCHPOINT_ANY" \notin cont_status
  /\ ~(regs.ip = ip + decoded.length + 1 /\ decoded.modifies_flags)

C4_NoWatchpointOverrun == ~h.overrun /\ h.abort # "line 301"

\* C5 as stated: on return IP is the entry IP with CX_after <= CX_before, or
\* the entry IP + the instruction's length.
C5_AsStated ==
  Returned =>
    \/ regs.ip = h.entry.regs.ip /\ regs.cx <= h.entry.regs.cx
    \/ regs.ip = h.entry.regs.ip + Len(insn)

\* C5, amended: on return IP is the entry IP with CX_after <= CX_before, or
\* the routine returned at line 144 with the tracee exactly where the trial
\* single-step left it; after a successful decode the return is at the entry
\* IP with CX_after < CX_before.
C5_ReturnIp ==
  Returned =>
    /\ \/ regs.ip = h.entry.regs.ip /\ regs.cx <= h.entry.regs.cx
       \/ h.ret = "ip moved" /\ regs = PlainSteps(1).regs
    /\ decoded.ok => regs.ip = h.entry.regs.ip /\ regs.cx < h.entry.regs.cx

\* A return at line 144 with IP neither the entry IP nor IP + length: the
\* breakpoint instruction on a REP string instruction ran.
C5_Witness ==
  /\ Returned /\ h.ret = "ip moved" /\ StaticDecoded.ok
  /\ regs.ip # h.entry.regs.ip + StaticDecoded.length

\* C6 as stated: when the batched continue ends at the internal breakpoint
\* (the loop ended through ZF), the routine returns with the tracee at
\* entry IP + length.
C6_AsStated ==
  (Returned /\ h.bp_exit) => regs.ip = h.entry.regs.ip + decoded.length

\* C6, amended: when the batched continue ends at the internal breakpoint,
\* the routine sets IP back to entry IP + length, then unwinds to r and runs
\* the round again; it returns with the tracee at the entry IP, one iteration
\* short of the exit (CX = exit CX + 1).
C6_RewindThenRetry ==
  /\ (pc = "cleanup" /\ "DS_WATCHPOINT_ANY" \notin cont_status)
        => regs.ip = h.entry.regs.ip + decoded.length
  /\ (Returned /\ h.bp_exit)
        => /\ h.retries = 1
           /\ regs.ip = h.entry.regs.ip
           /\ regs.cx = h.exit_cx + 1

\* A return after the batched continue ended at the breakpoint.
C6_Witness == Returned /\ h.bp_exit /\ h.conts >= 1 /\ regs.cx = zf + 1

\* The bound of the design for the registers rs read after the trial step:
\* the least of cur_cx - 1, cur_cx - s.cx - 1 over the applicable target
\* states, and each watchpoint's bound against SI and against DI.
DesignBound(rs) ==
  LET top == rs.cx - 1
      by_states ==
        {rs.cx - s.cx - 1 : s \in
           {t \in EntryStates :
              \/ t.ip = h.entry.regs.ip /\ t.cx # 0 /\ t.cx < rs.cx
              \/ t.ip = h.entry.regs.ip + decoded.length /\ t.cx < rs.cx}}
      by_watch ==
        {bound_iterations_for_watchpoint(rs.df, reg, decoded, w, top) :
           reg \in {rs.si, rs.di}, w \in h.entry.watchpoints}
      all == {top} \cup by_states \cup by_watch
  IN CHOOSE n \in all : \A m \in all : n <= m

SoftAbort == Returned /\ h.ret # "done"

\* C8 as stated: a return through a soft abort has issued exactly one
\* single-step and no continue, has written no register and has changed no
\* breakpoint or watchpoint.
C8_AsStated ==
  SoftAbort => h.steps = 1 /\ h.conts = 0 /\ h.reg_writes = 0 /\ h.vm_ops = 0

\* C8, amended: a soft abort of the first round (no ZF retry before it) has
\* issued exactly one single-step and no continue, has written no register
\* and has changed no table.  A soft abort of the retry round is the return
\* for zero iterations; it follows further resumes and the set_regs(r), and
\* leaves the registers as the trial single-step left them and the tables as
\* at entry.
C8_SoftAbort ==
  /\ (SoftAbort /\ h.retries = 0)
        => h.steps = 1 /\ h.conts = 0 /\ h.reg_writes = 0 /\ h.vm_ops = 0
  /\ (SoftAbort /\ h.retries > 0)
        => /\ h.ret = "no iterations"
           /\ h.steps + h.conts >= 2 /\ h.reg_writes >= 1
           /\ regs = h.trial.regs
           /\ breakpoints = h.entry.breakpoints
           /\ watchpoints = h.entry.watchpoints

\* A zero-iterations return of the retry round.
C8_Witness == SoftAbort /\ h.retries = 1 /\ h.ret = "no iterations"

\* C9 as stated: on every return no debug status bit set by a stop of the
\* call is still pending.
C9_AsStated == Returned => debug_status = {}

\* C9, amended: the routine consumes the debug status of the batched continue
\* and of every tail single-step, never that of the trial single-step alone:
\* a return after a consumed stop leaves nothing pending, a return before any
\* leaves the trial step's status pending, with WATCHPOINT_ANY in it exactly
\* when a watchpoint fired on the trial step (the returns of lines 144 and
\* 152).
C9_DebugStatusOnReturn ==
  Returned =>
    /\ h.consumed => debug_status = {}
    /\ ~h.consumed => "DS_SINGLESTEP" \in debug_status
    /\ "DS_WATCHPOINT_ANY" \in debug_status <=> h.trial.watch
    /\ h.trial.watch => h.ret \in {"ip moved", "watchpoint"}

\* A return after tail single-steps, nothing pending.
C9_Witness == Returned /\ h.ret = "done" /\ h.steps > 1 /\ debug_status = {}

\* C10: the ZF-retry path runs at most once per call: after the retry the
\* tracee never leaves the string instruction again, and the assertion of
\* line 312 (states_copy is empty) never fails.
C10_OneRetry ==
  /\ h.retries <= 1
  /\ h.abort # "line 312"
  /\ h.retries = 1 => regs.ip = h.entry.regs.ip

\* A return after a retry whose second round ran a batched phase too.
C10_Witness == Returned /\ h.retries = 1 /\ h.conts = 2

\* C11: the routine never advances the tracee past a breakpoint another
\* party installed before the call (on the string instruction, behind it, or
\* elsewhere).  Such a breakpoint stays in the table throughout; every resume
\* after the trial single-step is issued with the tracee at the entry IP; and
\* whenever the tracee has run the breakpoint instruction (IP is one byte past
\* the breakpoint) the routine is at that very stop, from which it returns at
\* once (line 144) or sets IP back onto the breakpoint (lines 279-281).  After
\* a decode it returns at the string instruction.
C11_NoBreakpointPassed ==
  /\ ~h.off_resume
  /\ \A b \in BagToSet(h.entry.breakpoints) :
        CopiesIn(b, breakpoints) >= CopiesIn(b, h.entry.breakpoints)
  /\ \A b \in BagToSet(h.entry.breakpoints) :
        (pc # "entry" /\ regs.ip = b[1] + 1) =>
           \/ pc \in {"trial", "stopped", "abort"}
           \/ Returned /\ h.ret = "ip moved" /\ h.steps = 1 /\ h.conts = 0
  /\ (Returned /\ decoded.ok) => regs.ip = h.entry.regs.ip

\* A return after the batched continue ran into another party's breakpoint
\* behind the string instruction.
C11_Witness ==
  /\ Returned /\ h.bp_exit /\ h.retries = 1
  /\ BagIn(<<h.entry.regs.ip + decoded.length, "TRAP_BKPT_USER">>, h.entry.breakpoints)
  /\ regs.ip = h.entry.regs.ip

\* The batched phase ended abnormally: an ASSERT between the save of the
\* watchpoints (line 262) and their restore (line 285) failed.
BatchAborted ==
  pc = "abort" /\ h.abort \in {"line 267", "line 269", "line 272", "line 277"}

\* C12: the save and restore of the watchpoints is safe on every exit path:
\* when the batched phase ends abnormally, the saved watchpoint set is
\* restored and neither the temporary watchpoint nor the internal breakpoint
\* is left behind.
C12_RestoredOnAbnormalExit ==
  BatchAborted => /\ watchpoints = h.entry.watchpoints
                  /\ saved_watchpoints = <<>>
                  /\ breakpoints = h.entry.breakpoints

\* Scenario S2 of the design: rep stosq, entry CX = 100, entry DI = 0x10000.
S2 == insn = <<\hF3, \h48, \hAB>> /\ h.entry.regs.cx = 100 /\ h.entry.regs.di = \h10000

\* The temporary watchpoint of the batched phase at address a.
TempWatchpointAt(a) ==
  watchpoints = {[addr |-> a, num_bytes |-> 1, type |-> "WATCH_READWRITE"]}

\* C13 as stated: in S2 the decoder yields operand_size = 8 and length = 3,
\* watch_offset is 8 * 98 = 784, and the temporary watchpoint is installed at
\* 0x102A8.
C13_AsStated ==
  (S2 /\ pc = "cont") =>
     /\ decoded.operand_size = 8 /\ decoded.length = 3
     /\ watch_offset = 784
     /\ TempWatchpointAt(\h102A8)

\* C13, amended: in S2 the decoder yields operand_size = 8 and length = 3;
\* after the trial single-step cur_cx = 99 and DI = 0x10008, the bound is 98
\* iterations, watch_offset = 8 * 97 = 776 > 128, and the temporary watchpoint
\* is installed at DI + 776 - 128 = 0x10290 (the entry DI + 656).
C13_S2Numbers ==
  /\ (S2 /\ decoded.ok) => decoded.operand_size = 8 /\ decoded.length = 3
  /\ (S2 /\ pc = "cont") =>
        /\ cur_cx = 99 /\ regs.di = \h10008 /\ iterations = 98
        /\ watch_offset = 776 /\ watch_offset > BYTES_COALESCED
        /\ TempWatchpointAt(\h10290)
        /\ \h10290 = h.entry.regs.di + 656

\* S2 with the batched phase set up.
C13_Witness == S2 /\ pc = "cont" /\ decoded.ok /\ watchpoints # {}

\* C14: for each of the ten opcodes, when the batched continue stops, exactly
\* one of two cases holds: WATCHPOINT_ANY is reported (by the temporary
\* watchpoint) with IP still at the string instruction, or no watchpoint is
\* reported, the opcode modifies flags and IP is IP + decoded.length + 1; the
\* assertion of line 277 never fails.
C14_AsStated ==
  /\ pc = "stopped" =>
        \/ "DS_WATCHPOINT_ANY" \in cont_status /\ regs.ip = ip
        \/ /\ "DS_WATCHPOINT_ANY" \notin cont_status
           /\ decoded.modifies_flags /\ regs.ip = ip + decoded.length + 1
  /\ h.abort # "line 277"

\* The routine's own breakpoint.
InternalBreakpoint == <<ip + decoded.length, "TRAP_BKPT_INTERNAL">>

\* C15: the routine's own table entries are scoped to the batched phase.
\* Wherever a single-step is issued or the routine returns, and everywhere
\* else outside the batched phase, both tables are those of the entry and
\* nothing is saved.  Inside it (set up, in the continue, at its stop) the one
\* temporary watchpoint, 1 byte READWRITE, is the only watchpoint, the entry
\* set is the one saved set, the breakpoints are those of the entry and one
\* internal breakpoint at IP + length more, and
\* operand_size * (iterations - 1) > 128.  A round issues at most one
\* continue.
C15_Scoped ==
  /\ pc \in {"entry", "trial", "round", "exec", "tail", "done"} =>
        /\ watchpoints = h.entry.watchpoints
        /\ breakpoints = h.entry.breakpoints
        /\ saved_watchpoints = <<>>
  /\ pc \in {"cont", "stopped", "cleanup"} =>
        /\ Cardinality(watchpoints) = 1
        /\ \A w \in watchpoints :
              /\ w.num_bytes = 1 /\ w.type = "WATCH_READWRITE"
              /\ w \notin h.entry.watchpoints
        /\ saved_watchpoints = <<h.entry.watchpoints>>
        /\ breakpoints = h.entry.breakpoints (+) SetToBag({InternalBreakpoint})
        /\ decoded.operand_size * (iterations - 1) > BYTES_COALESCED
  /\ h.conts <= h.rounds
  /\ pc = "cont" => h.conts < h.rounds

\* The batched continue about to be issued, with a watchpoint and a
\* breakpoint of other parties in the tables at entry.
C15_Witness ==
  /\ pc = "cont" /\ h.entry.watchpoints # {} /\ h.entry.breakpoints # EmptyBag
  /\ Cardinality(watchpoints) = 1

\* C16: the last iteration is reserved.  After the trial single-step of a
\* decoded instruction no single-step and no continue runs the iteration that
\* takes CX from 1 to 0: CX stays at least 1 at every stop, and a return after
\* the decode leaves the tracee at the string instruction with CX at least 1,
\* at most cur_cx - 1 iterations on from the trial step.
C16_LastIterationReserved ==
  decoded.ok =>
    /\ regs.cx >= 1
    /\ Returned => /\ regs.ip = h.entry.regs.ip
                   /\ h.trial.regs.cx - regs.cx <= h.trial.regs.cx - 1

\* The watchpoint the bounder was called with.
TheWatch == CHOOSE w \in watchpoints : TRUE

\* Iteration j (from 0) of the string instruction touches the watchpoint:
\* its operand at regs.di + direction * j * size meets the watched range.
Touches(j) ==
  Overlap(regs.di + Direction(regs) * j * decoded.operand_size, decoded.operand_size,
          TheWatch.addr, TheWatch.num_bytes)

\* The watchpoint lies behind the direction of travel.
Behind ==
  IF regs.df THEN TheWatch.addr > regs.di ELSE TheWatch.addr < regs.di

\* C17: bound_iterations_for_watchpoint is exact.  The count it leaves is the
\* largest n, not above the count it was given, such that none of the
\* iterations 0..n-1 touches the watchpoint: 0 when the first operand already
\* meets it, floor((w.addr - R) / size) forward and
\* floor((R - (w.addr + w.num_bytes)) / size) + 1 backward where that is
\* less; and a watchpoint that does not meet the first operand leaves the
\* count alone, however large, exactly when it lies behind the direction of
\* travel (forward: w.addr < R; backward: w.addr > R), where no iteration
\* ever touches it.
C17_BoundExact ==
  pc = "bounded" =>
    LET n0 == h.first.iterations
        size == decoded.operand_size
        w == TheWatch
        R == regs.di
        free == {n \in 0..n0 : \A j \in 0..(n - 1) : ~Touches(j)}
    IN /\ iterations \in free /\ \A n \in free : n <= iterations
       /\ Touches(0) => iterations = 0
       /\ (~Touches(0) /\ ~regs.df /\ ~Behind) =>
             iterations = Min(n0, (w.addr - R) \div size)
       /\ (~Touches(0) /\ regs.df /\ ~Behind) =>
             iterations = Min(n0, (R - (w.addr + w.num_bytes)) \div size + 1)
       /\ (~Touches(0) /\ Behind) =>
             iterations = n0 /\ \A j \in 0..(4 * MaxDist) : ~Touches(j)
       /\ (~Touches(0) /\ n0 = 4 * MaxDist) => (iterations = n0 <=> Behind)

\* A backward bound: DF = 1, a watchpoint below the register, and a count
\* brought down to a positive number of iterations.
C17_Witness ==
  /\ pc = "bounded" /\ regs.df /\ TheWatch.addr + TheWatch.num_bytes < regs.di
  /\ decoded.operand_size = 4
  /\ 0 < iterations /\ iterations < h.first.iterations

\* The prefixes of the design for the architecture of the buffer.
KnownPrefixes ==
  {\h66, \hF2, \hF3} \cup (IF instruction_buf.arch = "x86_64" THEN {\h48} ELSE {})

\* The buffer begins with k - 1 known prefixes, one of them F2 or F3, and
\* has one of the ten opcodes as its k-th byte.
OpcodeAt(k) ==
  /\ k \in 1..instruction_buf.code_buf_len
  /\ instruction_buf.code_buf[k] \in StringOps
  /\ \A i \in 1..(k - 1) : instruction_buf.code_buf[i] \in KnownPrefixes
  /\ \E i \in 1..(k - 1) : instruction_buf.code_buf[i] \in {\hF2, \hF3}

\* The decoder read code_buf[code_buf_len] (line 86 after the loop ran out).
ReadBehindBuffer ==
  LET st == DecodeLoop(instruction_buf, 0, DecodeStart)
  IN st.exit = "end" /\ st.found_REP_prefix

\* C18: for every buffer the decoder accepts the result follows the operand
\* size rule: the byte at length is the opcode, the length - 1 bytes before
\* it are the prefixes, operand_size is 1 for an opcode with low bit 0, else
\* 8 with a REX.W prefix, else 2 with a 0x66 prefix, else 4, and
\* modifies_flags is true exactly for A6, A7, AE, AF.
C18_SizeRule ==
  (pc = "decoded" /\ decoded.ok) =>
    /\ decoded.length \in 1..instruction_buf.code_buf_len
    /\ LET buf == instruction_buf.code_buf
           opcode == buf[decoded.length]
           prefixes == {buf[i] : i \in 1..(decoded.length - 1)}
       IN /\ opcode \in StringOps
          /\ prefixes \subseteq {\h66, \h48, \hF2, \hF3}
          /\ decoded.operand_size =
                IF opcode % 2 = 0 THEN 1
                ELSE IF \h48 \in prefixes THEN 8
                ELSE IF \h66 \in prefixes THEN 2 ELSE 4
          /\ decoded.modifies_flags <=> opcode \in {\hA6, \hA7, \hAE, \hAF}

\* C19: the decoder succeeds if and only if the bytes read begin with known
\* prefixes, at least one of them F2 or F3, followed within the buffer by one
\* of the ten opcodes; and it never reads a byte at or behind code_buf_len.
C19_AcceptsIff ==
  pc = "decoded" =>
    /\ decoded.ok <=> \E k \in 1..CODE_BUF_SIZE : OpcodeAt(k)
    /\ ~ReadBehindBuffer

\* C20: the call terminates.  The outer loop runs at most two rounds and a
\* round issues at most one continue; the count of the tail loop is never a
\* wrapped one, so the loop issues at most that many single-steps; and the
\* batched continue never runs more iterations than the bound of its round,
\* so the subtraction of line 287 does not underflow.
C20_BoundedWork ==
  /\ h.rounds <= 2 /\ h.conts <= h.rounds
  /\ pc = "tail" => iterations >= 0
  /\ pc \in {"stopped", "cleanup"} =>
        /\ cur_cx - regs.cx <= iterations
        /\ IterationsToGo >= 0

====
